---- MODULE Spec2Model ----
(***************************************************************************)
(* Ride-sharing backend (src/app.py): users, rides and ride requests in a  *)
(* relational store, a server-side session per client, the in-process      *)
(* unique_emails set, and one action per request handler.                  *)
(*                                                                         *)
(* Row ids are the positions in the sequences users, rides and requests:   *)
(* the store hands out 1, 2, 3, ... and no handler deletes a row.          *)
(* The other collections of RideShareDataStructures (active_rides,         *)
(* ride_cache, driver_rides, user_sessions, active_drivers,                *)
(* search_history) are written by the handlers and read by none of them:   *)
(* every access is guarded and cannot raise, so they decide no response    *)
(* and no stored row, and they are left out of the state.                  *)
(***************************************************************************)
EXTENDS Integers, Sequences, FiniteSets, TLC

\* ------------------------------------------------------------------ bounds
\* the users that register from the empty database (AuthSpec)
MaxUsers == 2
MaxRides == 2
MaxRequests == 2
\* the most seats a create-ride or create-request body asks for
MaxSeats == 2
\* accepted requests are subtracted without a floor: available_seats is
\* followed down to -MaxDebt
MaxDebt == 1
NClients == 1
\* threads of the server that handle calls at the same time
NWorkers == 2

\* ------------------------------------------------------------- input sets
Clients == 1..NClients
Workers == 1..NWorkers
Emails == {"a@x", "b@x", "c@x"}
Passwords == {"pw1", "pw2"}
Roles == {"driver", "rider", "admin"}
Statuses == {"accepted", "declined", "cancelled"}
\* a JSON null sent for a NOT NULL column
Null == "null"
RegisterFields == <<"firstName", "lastName", "email", "phone", "password", "role">>
RideFields == <<"origin", "destination", "date", "time", "availableSeats", "price", "vehicleType">>
RequestFields == <<"rideId", "seats">>

Range(f) == {f[i] : i \in DOMAIN f}

\* the first field of required_fields that the body lacks, "" when none
FirstMissing(required_fields, data) ==
    IF \A i \in DOMAIN required_fields : required_fields[i] \in data
    THEN ""
    ELSE required_fields[CHOOSE i \in DOMAIN required_fields :
                            /\ required_fields[i] \notin data
                            /\ \A j \in 1..(i - 1) : required_fields[j] \in data]

\* ------------------------------------------------------------------ state
VARIABLES
    users,          \* table users: <<[email, password_hash, role]>>
    rides,          \* table rides: <<[driver_id, origin, destination, date,
                    \*                 available_seats, status]>>; origin and
                    \*                 destination are strings spelled as sequences
                    \*                 of characters
    requests,       \* table ride_requests: <<[ride_id, rider_id, seats, status]>>
    unique_emails,  \* ride_data.unique_emails
    sessions,       \* client -> [user_id, user_role]
    resp,           \* the last call and its response
    inflight        \* worker thread -> the update_request_status call it is in

vars == <<users, rides, requests, unique_emails, sessions, resp, inflight>>

\* 'user_id' not in session
NoUser == 0
EmptySession == [user_id |-> NoUser, user_role |-> ""]

\* werkzeug.security: the stored hash is a salted one-way digest, and
\* check_password_hash accepts exactly the password it was made from
generate_password_hash(password) == [method |-> "scrypt", digest |-> <<"salt", password>>]
\* faulty variant: every password is accepted
AnyPasswordMatches(pwhash, password) == TRUE
check_password_hash(pwhash, password) == pwhash.digest = <<"salt", password>>

\* faulty variant: the lookup finds no row
UserByEmailNotFound(email) == NoUser
\* User.query.filter_by(email=...).first(): the id of the first row, 0 when none
UserByEmail(email) ==
    IF \E i \in DOMAIN users : users[i].email = email
    THEN CHOOSE i \in DOMAIN users :
            /\ users[i].email = email
            /\ \A j \in 1..(i - 1) : users[j].email # email
    ELSE NoUser

\* the call, the HTTP status, and of the JSON body what the claims read: the
\* ids of the rows a listing returns, in the order returned, and the message
\* of a refused login
Response(op, client, code) ==
    [op |-> op, client |-> client, code |-> code, body |-> <<>>, message |-> ""]

\* order_by(created_at.desc()): ids are handed out in creation order, so the
\* newest row has the largest id
RECURSIVE NewestFirst(_)
NewestFirst(ids) ==
    IF ids = {} THEN <<>>
    ELSE LET newest == CHOOSE i \in ids : \A j \in ids : j <= i
         IN <<newest>> \o NewestFirst(ids \ {newest})

\* a worker thread that handles no call
Idle == [pc |-> "idle", client |-> 0, request_id |-> 0, status |-> "", ride_id |-> 0,
         seats |-> 0, available_seats |-> 0, code |-> 0]

\* ride_data = RideShareDataStructures(); db.create_all() on an empty database
AuthInit ==
    /\ users = <<>>
    /\ rides = <<>>
    /\ requests = <<>>
    /\ unique_emails = {}
    /\ sessions = [c \in Clients |-> EmptySession]
    /\ resp = Response("start", 0, 0)
    /\ inflight = [w \in Workers |-> Idle]

\* the process is started again: the module-level ride_data is built anew,
\* the database and the filesystem sessions stay
Restart ==
    /\ unique_emails # {}
    /\ unique_emails' = {}
    /\ resp' = Response("start", 0, 0)
    /\ UNCHANGED <<inflight, users, rides, requests, sessions>>

\* ------------------------------------------------------------------- auth
\* require_auth: the wrapped handler runs only with 'user_id' in session
\* faulty variant: the decorator lets every call through
AnyoneMayCall(c) == TRUE
require_auth(c) == sessions[c].user_id # NoUser

\* session.get('user_role') != 'driver' / != 'rider' is what answers 403
\* faulty variant: the role is not compared
AnyRoleIsDriver(c) == TRUE
IsDriver(c) == sessions[c].user_role = "driver"
\* faulty variant: the rider check lets every role through
AnyRoleIsRider(c) == TRUE
IsRider(c) == sessions[c].user_role = "rider"

\* faulty variant: the refusal comes after a row was written
RejectAfterInsert(op, c, code) ==
    /\ resp' = Response(op, c, code)
    /\ requests' = Append(requests, [ride_id |-> 1, rider_id |-> sessions[c].user_id,
                                     seats |-> 1, status |-> "pending"])
    /\ UNCHANGED <<inflight, users, rides, unique_emails, sessions>>
\* return jsonify({'message': ...}), 400 / 404: the handler returns before it
\* has added anything to db.session
Reject(op, c, code) ==
    /\ resp' = Response(op, c, code)
    /\ UNCHANGED <<inflight, users, rides, requests, unique_emails, sessions>>

Unauthorized(op, c) ==
    /\ resp' = Response(op, c, 401)
    /\ UNCHANGED <<inflight, users, rides, requests, unique_emails, sessions>>

\* faulty variant: 'user_role' is not rewritten, the session keeps the role
\* it had
BindSessionKeepsRole(c, user_id, user_role) ==
    [sessions EXCEPT ![c].user_id = user_id]
\* session['user_id'] = user.id; session['user_role'] = user.role
BindSession(c, user_id, user_role) ==
    [sessions EXCEPT ![c] = [user_id |-> user_id, user_role |-> user_role]]

\* POST /api/auth/register
Register(c, data, email, password, role, first_name) ==
    IF FirstMissing(RegisterFields, data) # ""
    THEN Reject("register", c, 400)
    ELSE IF email \in unique_emails
    THEN Reject("register", c, 400)
    ELSE /\ unique_emails' = unique_emails \cup {email}
         /\ IF UserByEmail(email) # NoUser
            THEN /\ resp' = Response("register", c, 400)
                 /\ UNCHANGED <<inflight, users, rides, requests, sessions>>
            ELSE IF first_name = Null
            THEN \* db.session.commit() raises IntegrityError (NOT NULL)
                 /\ resp' = Response("register", c, 500)
                 /\ UNCHANGED <<inflight, users, rides, requests, sessions>>
            ELSE /\ Len(users) < MaxUsers
                 /\ users' = Append(users, [email |-> email,
                                            password_hash |-> generate_password_hash(password),
                                            role |-> role])
                 /\ sessions' = BindSession(c, Len(users) + 1, role)
                 /\ resp' = Response("register", c, 201)
                 /\ UNCHANGED <<inflight, rides, requests>>

\* POST /api/auth/login
Login(c, data, email, password) ==
    IF ~({"email", "password"} \subseteq data)
    THEN /\ resp' = [Response("login", c, 400) EXCEPT !.message = "Email and password required"]
         /\ UNCHANGED <<inflight, users, rides, requests, unique_emails, sessions>>
    ELSE LET user == UserByEmail(email) IN
         IF user # NoUser /\ check_password_hash(users[user].password_hash, password)
         THEN /\ sessions' = BindSession(c, user, users[user].role)
              /\ resp' = Response("login", c, 200)
              /\ UNCHANGED <<inflight, users, rides, requests, unique_emails>>
         ELSE /\ resp' = [Response("login", c, 401) EXCEPT !.message = "Invalid credentials"]
              /\ UNCHANGED <<inflight, users, rides, requests, unique_emails, sessions>>

\* faulty variant: only 'user_id' is popped, the role stays in the session
LogoutKeepsRole(c) ==
    /\ sessions' = [sessions EXCEPT ![c].user_id = NoUser]
    /\ resp' = Response("logout", c, 200)
    /\ UNCHANGED <<inflight, users, rides, requests, unique_emails>>

\* POST /api/auth/logout
Logout(c) ==
    /\ sessions' = [sessions EXCEPT ![c] = EmptySession]
    /\ resp' = Response("logout", c, 200)
    /\ UNCHANGED <<inflight, users, rides, requests, unique_emails>>

\* GET /api/auth/me
GetCurrentUser(c) ==
    IF ~require_auth(c)
    THEN Unauthorized("get_current_user", c)
    ELSE /\ resp' = IF sessions[c].user_id \in DOMAIN users
                    THEN Response("get_current_user", c, 200)
                    ELSE Response("get_current_user", c, 404)
         /\ UNCHANGED <<inflight, users, rides, requests, unique_emails, sessions>>

\* ------------------------------------------------------------------ rides
\* POST /api/rides
CreateRide(c, data, origin, destination, date, availableSeats) ==
    IF ~require_auth(c)
    THEN Unauthorized("create_ride", c)
    ELSE IF ~IsDriver(c)
    THEN /\ resp' = Response("create_ride", c, 403)
         /\ UNCHANGED <<inflight, users, rides, requests, unique_emails, sessions>>
    ELSE IF FirstMissing(RideFields, data) # ""
    THEN Reject("create_ride", c, 400)
    ELSE /\ Len(rides) < MaxRides
         /\ rides' = Append(rides, [driver_id |-> sessions[c].user_id,
                                    origin |-> origin,
                                    destination |-> destination,
                                    date |-> date,
                                    available_seats |-> availableSeats,
                                    status |-> "active"])
         /\ resp' = Response("create_ride", c, 201)
         /\ UNCHANGED <<inflight, users, requests, unique_emails, sessions>>

\* lower(): the case folding both sides of ILIKE get
Lower(ch) == IF ch = "A" THEN "a" ELSE IF ch = "B" THEN "b" ELSE ch

\* SQL LIKE over folded text: '%' stands for any run of characters, '_' for
\* any one character, every other character for itself
RECURSIVE Like(_, _)
Like(text, pattern) ==
    IF pattern = <<>> THEN text = <<>>
    ELSE IF Head(pattern) = "%"
    THEN \/ Like(text, Tail(pattern))
         \/ text # <<>> /\ Like(Tail(text), pattern)
    ELSE /\ text # <<>>
         /\ Head(pattern) = "_" \/ Lower(Head(text)) = Lower(Head(pattern))
         /\ Like(Tail(text), Tail(pattern))

\* Ride.origin.ilike(f'%{origin}%'): the query parameter is pasted into the
\* pattern as it came
ilike(column, term) == Like(column, <<"%">> \o term \o <<"%">>)

\* GET /api/rides/search: no require_auth; the search history and the ride
\* cache it fills are in-process lists no handler reads back
SearchRides(c, origin, destination, date) ==
    /\ resp' = [Response("search_rides", c, 200) EXCEPT !.body =
                  NewestFirst({r \in DOMAIN rides :
                                 /\ rides[r].status = "active"
                                 /\ origin # <<>> => ilike(rides[r].origin, origin)
                                 /\ destination # <<>> => ilike(rides[r].destination, destination)
                                 /\ date # "" => rides[r].date = date})]
    /\ UNCHANGED <<inflight, users, rides, requests, unique_emails, sessions>>

\* GET /api/rides/my
GetMyRides(c) ==
    IF ~require_auth(c)
    THEN Unauthorized("get_my_rides", c)
    ELSE /\ resp' = IF ~IsDriver(c)
                    THEN Response("get_my_rides", c, 403)
                    ELSE [Response("get_my_rides", c, 200) EXCEPT !.body =
                            NewestFirst({r \in DOMAIN rides :
                                            rides[r].driver_id = sessions[c].user_id})]
         /\ UNCHANGED <<inflight, users, rides, requests, unique_emails, sessions>>

\* --------------------------------------------------------------- requests
\* ride.available_seats < data['seats'] is what answers 400
\* faulty variant: <= for <
NotEnoughSeatsOrEqual(ride, seats) == rides[ride].available_seats <= seats
NotEnoughSeats(ride, seats) == rides[ride].available_seats < seats

\* POST /api/requests
CreateRideRequest(c, data, rideId, seats) ==
    IF ~require_auth(c)
    THEN Unauthorized("create_ride_request", c)
    ELSE IF ~IsRider(c)
    THEN /\ resp' = Response("create_ride_request", c, 403)
         /\ UNCHANGED <<inflight, users, rides, requests, unique_emails, sessions>>
    ELSE IF FirstMissing(RequestFields, data) # ""
    THEN Reject("create_ride_request", c, 400)
    ELSE IF rideId \notin DOMAIN rides
    THEN Reject("create_ride_request", c, 404)
    ELSE IF NotEnoughSeats(rideId, seats)
    THEN Reject("create_ride_request", c, 400)
    ELSE /\ Len(requests) < MaxRequests
         /\ requests' = Append(requests, [ride_id |-> rideId,
                                          rider_id |-> sessions[c].user_id,
                                          seats |-> seats,
                                          status |-> "pending"])
         /\ resp' = Response("create_ride_request", c, 201)
         /\ UNCHANGED <<inflight, users, rides, unique_emails, sessions>>

\* faulty variant: the join does not filter on the driver
RequestsOfAnyDriver(user_id) == DOMAIN requests
\* db.session.query(RideRequest).join(Ride).filter(Ride.driver_id == user_id)
RequestsOfDriver(user_id) ==
    {q \in DOMAIN requests :
        \E r \in DOMAIN rides : r = requests[q].ride_id /\ rides[r].driver_id = user_id}
\* RideRequest.query.filter_by(rider_id=user_id)
RequestsOfRider(user_id) == {q \in DOMAIN requests : requests[q].rider_id = user_id}

\* GET /api/requests/my
GetMyRequests(c) ==
    IF ~require_auth(c)
    THEN Unauthorized("get_my_requests", c)
    ELSE /\ resp' = [Response("get_my_requests", c, 200) EXCEPT !.body =
                        IF sessions[c].user_role = "driver"
                        THEN NewestFirst(RequestsOfDriver(sessions[c].user_id))
                        ELSE NewestFirst(RequestsOfRider(sessions[c].user_id))]
         /\ UNCHANGED <<inflight, users, rides, requests, unique_emails, sessions>>

\* ride.driver_id != session['user_id'] is what rejects the caller
\* faulty variant: the driver id is not compared
OwnsAnyRide(c, ride) == TRUE
OwnsRide(c, ride) == rides[ride].driver_id = sessions[c].user_id

\* faulty variant: the seats are taken whatever the driver answers
CommitStatusAnyAnswer(request_id, status) ==
    LET ride == requests[request_id].ride_id IN
    /\ requests' = [requests EXCEPT ![request_id].status = status]
    /\ rides' = [rides EXCEPT ![ride].available_seats = @ - requests[request_id].seats]

\* faulty variant: one seat is taken whatever the request asks for
CommitStatusOneSeat(request_id, status) ==
    LET ride == requests[request_id].ride_id IN
    /\ requests' = [requests EXCEPT ![request_id].status = status]
    /\ rides' = IF status = "accepted"
                THEN [rides EXCEPT ![ride].available_seats = @ - 1]
                ELSE rides

\* ride_request.status = status; if status == 'accepted':
\* ride.available_seats -= ride_request.seats; db.session.commit()
CommitStatus(request_id, status) ==
    LET ride == requests[request_id].ride_id IN
    /\ requests' = [requests EXCEPT ![request_id].status = status]
    /\ rides' = IF status = "accepted"
                THEN [rides EXCEPT ![ride].available_seats = @ - requests[request_id].seats]
                ELSE rides

\* PATCH /api/requests/<request_id>
UpdateRequestStatus(c, request_id, status) ==
    IF ~require_auth(c)
    THEN Unauthorized("update_request_status", c)
    ELSE IF ~IsDriver(c)
    THEN /\ resp' = Response("update_request_status", c, 403)
         /\ UNCHANGED <<inflight, users, rides, requests, unique_emails, sessions>>
    ELSE IF status \notin {"accepted", "declined"}
    THEN Reject("update_request_status", c, 400)
    ELSE IF request_id \notin DOMAIN requests
    THEN Reject("update_request_status", c, 404)
    ELSE IF \/ requests[request_id].ride_id \notin DOMAIN rides
            \/ ~OwnsRide(c, requests[request_id].ride_id)
    THEN /\ resp' = Response("update_request_status", c, 403)
         /\ UNCHANGED <<inflight, users, rides, requests, unique_emails, sessions>>
    ELSE /\ CommitStatus(request_id, status)
         /\ \A r \in DOMAIN rides : /\ rides'[r].available_seats >= -MaxDebt
                                      /\ rides'[r].available_seats <= MaxSeats + MaxDebt
         /\ resp' = Response("update_request_status", c, 200)
         /\ UNCHANGED <<inflight, users, unique_emails, sessions>>

\* ------------------------------------------- update_request_status, by step
\* The server handles calls in threads, each with a database session of its
\* own: the rows a call reads are copies, the subtraction is done on the copy
\* and commit() writes the copy's value back (UPDATE rides SET
\* available_seats = <value>). Nothing locks the row between read and commit.

Finish(w, code) ==
    /\ inflight' = [inflight EXCEPT ![w].pc = "done", ![w].code = code]
    /\ resp' = Response("update_request_status", inflight[w].client, code)

\* the decorator, the role and status checks, RideRequest.query.get(request_id)
BeginUpdate(w, c, request_id, status) ==
    /\ inflight[w].pc = "idle"
    /\ LET code == IF ~require_auth(c) THEN 401
                   ELSE IF ~IsDriver(c) THEN 403
                   ELSE IF status \notin {"accepted", "declined"} THEN 400
                   ELSE IF request_id \notin DOMAIN requests THEN 404
                   ELSE 0
       IN IF code # 0
          THEN /\ inflight' = [inflight EXCEPT ![w] =
                                  [Idle EXCEPT !.pc = "done", !.client = c, !.code = code]]
               /\ resp' = Response("update_request_status", c, code)
          ELSE /\ inflight' = [inflight EXCEPT ![w] =
                                  [Idle EXCEPT !.pc = "request_loaded", !.client = c,
                                               !.request_id = request_id, !.status = status,
                                               !.ride_id = requests[request_id].ride_id,
                                               !.seats = requests[request_id].seats]]
               /\ resp' = resp
    /\ UNCHANGED <<users, rides, requests, unique_emails, sessions>>

\* ride = Ride.query.get(ride_request.ride_id) and the ownership check
LoadRide(w) ==
    /\ inflight[w].pc = "request_loaded"
    /\ IF \/ inflight[w].ride_id \notin DOMAIN rides
          \/ ~OwnsRide(inflight[w].client, inflight[w].ride_id)
       THEN Finish(w, 403)
       ELSE /\ inflight' = [inflight EXCEPT
                               ![w].pc = "ride_loaded",
                               ![w].available_seats = rides[inflight[w].ride_id].available_seats]
            /\ resp' = resp
    /\ UNCHANGED <<users, rides, requests, unique_emails, sessions>>

\* ride_request.status = status; ride.available_seats -= ride_request.seats
Assign(w) ==
    /\ inflight[w].pc = "ride_loaded"
    /\ inflight' = [inflight EXCEPT
                       ![w].pc = "dirty",
                       ![w].available_seats =
                           IF inflight[w].status = "accepted"
                           THEN @ - inflight[w].seats ELSE @]
    /\ UNCHANGED <<users, rides, requests, unique_emails, sessions, resp>>

\* db.session.commit(): the changed columns are written as they stand in the copy
Commit(w) ==
    /\ inflight[w].pc = "dirty"
    /\ requests' = [requests EXCEPT ![inflight[w].request_id].status = inflight[w].status]
    /\ rides' = IF inflight[w].status = "accepted"
                THEN [rides EXCEPT ![inflight[w].ride_id].available_seats =
                                        inflight[w].available_seats]
                ELSE rides
    /\ Finish(w, 200)
    /\ UNCHANGED <<users, unique_emails, sessions>>

\* ---------------------------------------------------------- specifications
\* The accounts the ride and request handlers are exercised with: two
\* drivers and a rider, each registered by Register and then logged out.
SeedUsers ==
    << [email |-> "a@x", password_hash |-> generate_password_hash("pw1"), role |-> "driver"],
       [email |-> "b@x", password_hash |-> generate_password_hash("pw1"), role |-> "driver"],
       [email |-> "c@x", password_hash |-> generate_password_hash("pw1"), role |-> "rider"] >>

Init ==
    /\ users = SeedUsers
    /\ rides = <<>>
    /\ requests = <<>>
    /\ unique_emails = {users[i].email : i \in DOMAIN users}
    /\ sessions = [c \in Clients |-> EmptySession]
    /\ resp = Response("start", 0, 0)
    /\ inflight = [w \in Workers |-> Idle]

AuthNext ==
    \/ Restart
    \/ \E c \in Clients, email \in Emails, password \in Passwords, role \in Roles,
          first_name \in {"Ann", Null},
          data \in {Range(RegisterFields), Range(RegisterFields) \ {"phone"}} :
            Register(c, data, email, password, role, first_name)
    \/ \E c \in Clients, email \in Emails, password \in Passwords,
          data \in {{"email", "password"}, {"email"}} :
            Login(c, data, email, password)
    \/ \E c \in Clients : Logout(c)
    \/ \E c \in Clients : GetCurrentUser(c)

Next ==
    \/ \E c \in Clients, email \in Emails, password \in Passwords,
          data \in {{"email", "password"}, {"email"}} :
            Login(c, data, email, password)
    \/ \E c \in Clients : Logout(c)
    \/ \E c \in Clients : GetCurrentUser(c)
    \/ \E c \in Clients, availableSeats \in 1..MaxSeats,
          data \in {Range(RideFields), Range(RideFields) \ {"price"}} :
            CreateRide(c, data, <<"A", "b">>, <<"b">>, "2025-01-01", availableSeats)
    \/ \E c \in Clients : GetMyRides(c)
    \/ \E c \in Clients, rideId \in 1..(MaxRides + 1), seats \in 1..MaxSeats,
          data \in {Range(RequestFields), {"rideId"}} :
            CreateRideRequest(c, data, rideId, seats)
    \/ \E c \in Clients : GetMyRequests(c)
    \/ \E c \in Clients, request_id \in 1..(MaxRequests + 1), status \in Statuses :
            UpdateRequestStatus(c, request_id, status)

\* Driver 1 is logged in and owns a ride posted with MaxSeats seats; the
\* rider has two pending requests on it
ConcInit ==
    /\ users = SeedUsers
    /\ rides = << [driver_id |-> 1, origin |-> <<"A", "b">>, destination |-> <<"b">>,
                    date |-> "2025-01-01", available_seats |-> MaxSeats,
                    status |-> "active"] >>
    /\ \E s1 \in 1..MaxSeats, s2 \in 1..MaxSeats :
          requests = << [ride_id |-> 1, rider_id |-> 3, seats |-> s1, status |-> "pending"],
                        [ride_id |-> 1, rider_id |-> 3, seats |-> s2, status |-> "pending"] >>
    /\ unique_emails = {users[i].email : i \in DOMAIN users}
    /\ sessions = [c \in Clients |-> [user_id |-> 1, user_role |-> "driver"]]
    /\ resp = Response("start", 0, 0)
    /\ inflight = [w \in Workers |-> Idle]
\* every handler of the application over the registered accounts
FullNext ==
    \/ Next
    \/ \E c \in Clients, email \in Emails,
          data \in {Range(RegisterFields), Range(RegisterFields) \ {"phone"}} :
            Register(c, data, email, "pw2", "rider", "Ann")
    \/ \E c \in Clients, origin \in {<<>>, <<"B">>}, date \in {"", "2025-01-02"} :
            SearchRides(c, origin, <<>>, date)
\* Driver 1 has posted a ride with MaxSeats seats and everyone is logged out
SeatInit ==
    /\ users = SeedUsers
    /\ rides = << [driver_id |-> 1, origin |-> <<"A", "b">>, destination |-> <<"b">>,
                    date |-> "2025-01-01", available_seats |-> MaxSeats,
                    status |-> "active"] >>
    /\ requests = <<>>
    /\ unique_emails = {users[i].email : i \in DOMAIN users}
    /\ sessions = [c \in Clients |-> EmptySession]
    /\ resp = Response("start", 0, 0)
    /\ inflight = [w \in Workers |-> Idle]

\* requests on that ride for any integer number of seats, zero and negative
\* included, and the driver's answers to them
SeatNext ==
    \/ \E c \in Clients, email \in Emails : Login(c, {"email", "password"}, email, "pw1")
    \/ \E c \in Clients, rideId \in 1..(MaxRides + 1), seats \in -1..MaxSeats :
            CreateRideRequest(c, Range(RequestFields), rideId, seats)
    \/ \E c \in Clients, request_id \in 1..MaxRequests, status \in {"accepted", "declined"} :
            UpdateRequestStatus(c, request_id, status)
\* the rows the rides table is filled with for searching: posted by
\* create_ride, and then 'cancelled' for some by whoever maintains the
\* table (Ride.status: 'active', 'completed', 'cancelled')
RideRows ==
    [driver_id : {1}, origin : {<<"A", "b">>, <<"b">>}, destination : {<<"b">>, <<"a">>},
     date : {"2025-01-01", "2025-01-02"}, available_seats : {MaxSeats},
     status : {"active", "cancelled"}]

SearchInit ==
    /\ users = SeedUsers
    /\ rides \in UNION {[1..n -> RideRows] : n \in 0..MaxRides}
    /\ requests = <<>>
    /\ unique_emails = {users[i].email : i \in DOMAIN users}
    /\ sessions = [c \in Clients |-> EmptySession]
    /\ resp = Response("start", 0, 0)
    /\ inflight = [w \in Workers |-> Idle]

\* what a client may put into the query string
SearchTerms == {<<>>, <<"a">>, <<"a", "B">>, <<"_">>}
SearchDates == {"", "2025-01-01"}

SearchNext ==
    \/ \E c \in Clients, origin \in SearchTerms, destination \in SearchTerms,
          date \in SearchDates :
            SearchRides(c, origin, destination, date)
    \/ \E c \in Clients, email \in Emails : Login(c, {"email", "password"}, email, "pw1")
    \/ \E c \in Clients : Logout(c)

ConcNext ==
    \/ \E w \in Workers, c \in Clients, request_id \in 1..(Len(requests) + 1), status \in Statuses :
            BeginUpdate(w, c, request_id, status)
    \/ \E w \in Workers : LoadRide(w)
    \/ \E w \in Workers : Assign(w)
    \/ \E w \in Workers : Commit(w)

\* the ride and request workflow over the registered accounts
Spec == Init /\ [][Next]_vars
\* registration and login from the empty database
AuthSpec == AuthInit /\ [][AuthNext]_vars
\* update_request_status calls that overlap in time
ConcSpec == ConcInit /\ [][ConcNext]_vars

\* every handler, ride search and refused registrations included
FullSpec == Init /\ [][FullNext]_vars

\* requests for any integer number of seats on one ride
SeatSpec == SeatInit /\ [][SeatNext]_vars

\* ride search over a filled rides table, logged in or not
SearchSpec == SearchInit /\ [][SearchNext]_vars

\* ------------------------------------------------------------------ claims
AuthOps == {"get_current_user", "create_ride", "get_my_rides", "create_ride_request",
            "get_my_requests", "update_request_status"}
RideOf(q) == requests[q].ride_id
Bound(c) == sessions[c] # EmptySession
\* a session bound to a driver sends a well-formed update for a stored request
\* on a ride it owns
OwnerUpdates(c, q) ==
    /\ Bound(c)
    /\ sessions[c].user_role = "driver"
    /\ q \in DOMAIN requests
    /\ rides[RideOf(q)].driver_id = sessions[c].user_id

\* C1: in every reachable state every ride's available seats is >= 0 (an
\* acceptance that would take it below zero is rejected).
C1_SeatsNeverNegative ==
    \A r \in DOMAIN rides : rides[r].available_seats >= 0

\* C2: a request's status changes only away from 'pending': once it is
\* 'accepted' or 'declined' no step changes it.
C2_StatusOnlyFromPending ==
    [][\A q \in DOMAIN requests :
          requests[q].status # "pending" => requests'[q].status = requests[q].status]_vars

\* C3: the owning driver accepting a pending request for S seats gets 200, the
\* request becomes 'accepted', its ride's available seats drop by exactly S,
\* and nothing else of any ride changes.
C3_AcceptSubtractsSeats ==
    [][\A c \in Clients, q \in DOMAIN requests :
          (/\ OwnerUpdates(c, q)
           /\ requests[q].status = "pending"
           /\ UpdateRequestStatus(c, q, "accepted"))
          => /\ resp'.code = 200
             /\ requests'[q].status = "accepted"
             /\ rides' = [rides EXCEPT ![RideOf(q)].available_seats = @ - requests[q].seats]
             /\ \A r \in DOMAIN rides : r # RideOf(q) => rides'[r] = rides[r]]_vars
\* an accepted request for 1 seat on a ride that now has 1 seat left, beside
\* another ride
C3_Witness ==
    /\ resp.op = "update_request_status" /\ resp.code = 200
    /\ Len(rides) = 2
    /\ \E q \in DOMAIN requests :
          /\ requests[q].status = "accepted" /\ requests[q].seats = 1
          /\ rides[RideOf(q)].available_seats = MaxSeats - 1
          /\ \A p \in DOMAIN requests : p # q => requests[p].status = "pending"

\* C4: accepting a request that is no longer pending leaves its ride's
\* available seats as they were.
C4_ReacceptKeepsSeats ==
    [][\A c \in Clients, q \in DOMAIN requests :
          (/\ requests[q].status # "pending"
           /\ UpdateRequestStatus(c, q, "accepted"))
          => rides'[RideOf(q)].available_seats = rides[RideOf(q)].available_seats]_vars

\* C5: when two calls that accept the two pending requests overlap and both
\* return 200, the ride ends with its seats minus both requests' seats.
C5_NoLostDecrement ==
    \A w1, w2 \in Workers :
        (/\ inflight[w1].request_id = 1 /\ inflight[w2].request_id = 2
         /\ \A w \in {w1, w2} : /\ inflight[w].pc = "done" /\ inflight[w].code = 200
                                 /\ inflight[w].status = "accepted"
         /\ \A w \in Workers \ {w1, w2} : inflight[w].pc = "idle")
        => rides[1].available_seats = MaxSeats - requests[1].seats - requests[2].seats

\* C6: no two stored users share an email, and a complete register call for an
\* email a stored user holds returns 400 and stores no user: a step either
\* ends 400 with users unchanged or is no such call.
C6_EmailUnique ==
    [][/\ \A i, j \in DOMAIN users' : users'[i].email = users'[j].email => i = j
       /\ \/ resp'.code = 400 /\ users' = users
          \/ \A email \in {users[i].email : i \in DOMAIN users} :
                \A c \in Clients, password \in Passwords, role \in Roles,
                   first_name \in {"Ann", Null} :
                   ~Register(c, Range(RegisterFields), email, password, role, first_name)]_vars
\* two users are stored and unique_emails holds the first one's email alone:
\* after a restart emptied the set, a complete register call for that stored
\* email put it back and was answered 400 by the database lookup
C6_Witness ==
    /\ resp.op = "register" /\ resp.code = 400
    /\ Len(users) = 2
    /\ unique_emails = {users[1].email}

\* C7: an update by a driver who does not own the request's ride returns 403
\* and changes neither the request nor the ride; every step that changes a
\* request's status or a ride's seats is an update sent by the ride's owner.
C7_OnlyOwnerUpdates ==
    [][/\ \A c \in Clients, q \in DOMAIN requests, status \in {"accepted", "declined"} :
             (/\ Bound(c)
              /\ sessions[c].user_role = "driver"
              /\ rides[RideOf(q)].driver_id # sessions[c].user_id
              /\ UpdateRequestStatus(c, q, status))
             => resp'.code = 403 /\ requests' = requests /\ rides' = rides
       /\ \A q \in DOMAIN requests :
             (\/ requests'[q].status # requests[q].status
              \/ rides'[RideOf(q)].available_seats # rides[RideOf(q)].available_seats)
             => /\ resp'.op = "update_request_status"
                /\ sessions[resp'.client].user_id = rides[RideOf(q)].driver_id]_vars
\* a driver who owns no ride was answered 403 while a pending request waits on
\* the other driver's ride
C7_Witness ==
    /\ resp.op = "update_request_status" /\ resp.code = 403
    /\ sessions[resp.client].user_role = "driver"
    /\ requests # <<>>
    /\ \A q \in DOMAIN requests :
          /\ requests[q].status = "pending"
          /\ rides[RideOf(q)].driver_id # sessions[resp.client].user_id

\* C8: a call of an endpoint that requires auth on a session with no bound
\* user id returns 401 and changes no stored row and no session.
C8_UnauthNoEffect ==
    [][(resp'.op \in AuthOps /\ ~Bound(resp'.client))
       => /\ resp'.code = 401
          /\ UNCHANGED <<users, rides, requests, sessions>>]_vars
C8_Witness ==
    /\ resp.op = "update_request_status" /\ resp.code = 401
    /\ sessions[resp.client] = EmptySession
    /\ \E q \in DOMAIN requests : requests[q].status = "pending"

\* C9: with a bound session of the wrong role the driver-only endpoints and
\* the rider-only endpoint return 403 and change no ride and no request; with
\* an unbound session they return 401.
C9_RoleAfterAuth ==
    [][/\ (/\ resp'.op \in {"create_ride", "get_my_rides", "update_request_status"}
           /\ Bound(resp'.client)
           /\ sessions[resp'.client].user_role # "driver")
          => resp'.code = 403 /\ UNCHANGED <<rides, requests>>
       /\ (/\ resp'.op = "create_ride_request"
           /\ Bound(resp'.client)
           /\ sessions[resp'.client].user_role # "rider")
          => resp'.code = 403 /\ UNCHANGED <<rides, requests>>
       /\ (/\ resp'.op \in {"create_ride", "get_my_rides", "update_request_status",
                            "create_ride_request"}
           /\ ~Bound(resp'.client))
          => resp'.code = 401]_vars
\* the rider was refused create_ride
C9_Witness ==
    /\ resp.op = "create_ride" /\ resp.code = 403
    /\ sessions[resp.client].user_role = "rider"

\* C10: a rider's complete create-request call returns 404 and stores nothing
\* for a ride that does not exist, returns 400 and stores nothing when the
\* seats exceed the ride's available seats, and otherwise stores exactly one
\* pending request of the caller and leaves the ride's seats alone.
C10_CreateRequest ==
    [][\A c \in Clients, rideId \in 1..(MaxRides + 1), seats \in 1..MaxSeats :
          (/\ Bound(c)
           /\ sessions[c].user_role = "rider"
           /\ CreateRideRequest(c, Range(RequestFields), rideId, seats))
          => IF rideId \notin DOMAIN rides
             THEN resp'.code = 404 /\ requests' = requests /\ rides' = rides
             ELSE IF seats > rides[rideId].available_seats
             THEN resp'.code = 400 /\ requests' = requests /\ rides' = rides
             ELSE /\ resp'.code = 201
                  /\ requests' = Append(requests, [ride_id |-> rideId,
                                                   rider_id |-> sessions[c].user_id,
                                                   seats |-> seats,
                                                   status |-> "pending"])
                  /\ rides' = rides]_vars
\* a request for every seat the ride has was stored
C10_Witness ==
    /\ resp.op = "create_ride_request" /\ resp.code = 201
    /\ requests[Len(requests)].status = "pending"
    /\ requests[Len(requests)].rider_id = sessions[resp.client].user_id
    /\ requests[Len(requests)].seats = rides[requests[Len(requests)].ride_id].available_seats

\* C11: a register, create-ride, create-request or update-request-status
\* call that is answered 400 or 404 leaves the stored users, rides and
\* requests, every field of them, exactly as they were.
C11_RefusedCallKeepsStore ==
    [][(/\ resp'.op \in {"register", "create_ride", "create_ride_request",
                          "update_request_status"}
        /\ resp'.code \in {400, 404})
       => /\ users' = users
          /\ rides' = rides
          /\ requests' = requests]_vars
\* a rider's create-request call was refused with a ride and a request in
\* the store
C11_Witness ==
    /\ resp.op = "create_ride_request" /\ resp.code = 400
    /\ Len(rides) = 1 /\ rides[1].available_seats = 1
    /\ Len(requests) = 1 /\ requests[1].status = "pending"
    /\ sessions[resp.client].user_role = "rider"

\* C12: whether a register call succeeds depends on the stored users alone,
\* never on the in-process email set: a register call with every field
\* present and valid, for an email no stored user holds, is answered 201 in
\* every reachable state, also after an earlier attempt for that email
\* failed at commit.
C12_RegisterReadsStoreOnly ==
    [][\A c \in Clients, email \in Emails, password \in Passwords, role \in {"driver", "rider"} :
          (/\ \A i \in DOMAIN users : users[i].email # email
           /\ Register(c, Range(RegisterFields), email, password, role, "Ann"))
          => resp'.code = 201]_vars

\* C13: every stored request asks for more than zero seats: a create-request
\* call with seats 0 or negative creates no row, so accepting a request
\* never leaves the ride's seats unchanged or higher.
C13_RequestSeatsPositive ==
    [][/\ \A q \in DOMAIN requests' : requests'[q].seats > 0
       /\ \A c \in Clients, q \in DOMAIN requests :
             (requests[q].status = "pending" /\ UpdateRequestStatus(c, q, "accepted")
              /\ resp'.code = 200)
             => rides'[RideOf(q)].available_seats < rides[RideOf(q)].available_seats]_vars

\* C14: every stored user's role is 'driver' or 'rider' and never changes;
\* a register call with any other role stores no user.
C14_RoleIsDriverOrRider ==
    [][/\ \A i \in DOMAIN users' : users'[i].role \in {"driver", "rider"}
       /\ \A i \in DOMAIN users : users'[i].role = users[i].role]_vars

\* C15: logout clears the session whatever it held and is idempotent: from
\* a bound or an unbound session it is answered 200 and leaves the session
\* unbound and the store alone; a second logout right after gives the same
\* response and the same state; and an unbound session gets 401 from every
\* endpoint that requires authentication until a login or register call on
\* that session succeeds.
C15_LogoutIdempotent ==
    /\ [](resp.op = "logout" => ENABLED (Logout(resp.client) /\ UNCHANGED vars))
    /\ [][/\ resp'.op = "logout"
              => /\ resp'.code = 200
                 /\ sessions'[resp'.client] = EmptySession
                 /\ UNCHANGED <<users, rides, requests>>
           /\ \A c \in Clients :
                 ~Bound(c) =>
                    /\ (resp'.client = c /\ resp'.op \in AuthOps) => resp'.code = 401
                    /\ Bound(c)' => /\ resp'.op \in {"login", "register"}
                                     /\ resp'.code \in {200, 201}
                                     /\ resp'.client = c]_vars
\* a driver with a ride and a request in the store has logged out and was
\* then refused by an endpoint that requires authentication
C15_Witness ==
    /\ resp.op = "get_my_rides" /\ resp.code = 401
    /\ sessions[resp.client] = EmptySession
    /\ Len(rides) = 1 /\ Len(requests) = 1

\* C16: a login with an email no stored user holds and a login with a stored
\* email and the wrong password get the same response, 401 with the same
\* message, and neither changes what the session is bound to; only a login
\* with a stored email and its password binds the session, to that user's
\* id and role.
C16_LoginFailuresAlike ==
    [][resp'.op = "login" =>
         /\ \A c \in Clients, email \in Emails, password \in Passwords :
               LET stored == {i \in DOMAIN users : users[i].email = email}
                   matching == {i \in stored :
                                   users[i].password_hash = generate_password_hash(password)}
               IN \/ ~Login(c, {"email", "password"}, email, password)
                  \/ IF matching = {}
                     THEN /\ resp' = [op |-> "login", client |-> c, code |-> 401,
                                       body |-> <<>>, message |-> "Invalid credentials"]
                          /\ sessions' = sessions
                     ELSE /\ resp'.code = 200
                          /\ \E i \in matching :
                                sessions' = [sessions EXCEPT ![c] =
                                               [user_id |-> i, user_role |-> users[i].role]]
         /\ sessions' # sessions => resp'.code = 200]_vars
\* a login was refused while the session was bound, with one of the three
\* emails not stored
C16_Witness ==
    /\ resp.op = "login" /\ resp.code = 401
    /\ Bound(resp.client)
    /\ Len(users) = 2

\* C17: only an update-request-status call with 'accepted' changes a ride
\* that already exists: register, login, logout, create-ride, search,
\* my-rides, create-request, my-requests and an update with 'declined' leave
\* every existing ride as it was; every ride is created 'active' and stays
\* 'active', and no ride is removed.
C17_OnlyAcceptChangesRide ==
    [][/\ Len(rides') >= Len(rides)
       /\ \A r \in DOMAIN rides' : rides'[r].status = "active"
       /\ \A r \in DOMAIN rides :
             rides'[r] # rides[r] =>
                \E c \in Clients, q \in DOMAIN requests :
                   RideOf(q) = r /\ UpdateRequestStatus(c, q, "accepted")]_vars
\* the driver declined the only request on a ride and the ride still has the
\* seats it was posted with, next to a second ride
C17_Witness ==
    /\ resp.op = "update_request_status" /\ resp.code = 200
    /\ Len(rides) = 2 /\ Len(requests) = 1
    /\ requests[1].status = "declined"
    /\ rides[RideOf(1)].available_seats = MaxSeats

\* C18: every stored ride's driver id is the id of a stored user whose role
\* is 'driver'; every stored request's rider id is the id of a stored user
\* whose role is 'rider', and its ride id is the id of a stored ride.
C18_ReferencesResolve ==
    /\ \A r \in DOMAIN rides :
          /\ rides[r].driver_id \in DOMAIN users
          /\ users[rides[r].driver_id].role = "driver"
    /\ \A q \in DOMAIN requests :
          /\ requests[q].rider_id \in DOMAIN users
          /\ users[requests[q].rider_id].role = "rider"
          /\ requests[q].ride_id \in DOMAIN rides
\* two drivers have a ride each and the rider a request on each
C18_Witness ==
    /\ Len(rides) = 2 /\ rides[1].driver_id # rides[2].driver_id
    /\ Len(requests) = 2 /\ requests[1].ride_id # requests[2].ride_id

\* C19: my-requests returns exactly the caller's requests: to a driver the
\* requests whose ride that driver owns, to a rider the requests whose rider
\* is the caller, each once; the call changes no stored row.
C19_MyRequestsAreTheCallers ==
    [][(resp'.op = "get_my_requests" /\ resp'.code = 200) =>
         LET c == resp'.client
             returned == Range(resp'.body)
         IN /\ UNCHANGED <<users, rides, requests>>
            /\ Len(resp'.body) = Cardinality(returned)
            /\ sessions[c].user_role = "driver" =>
                  returned = {q \in DOMAIN requests :
                                rides[RideOf(q)].driver_id = sessions[c].user_id}
            /\ sessions[c].user_role = "rider" =>
                  returned = {q \in DOMAIN requests :
                                requests[q].rider_id = sessions[c].user_id}]_vars
\* a driver was shown the one request on the driver's own ride while the
\* store also holds a request on another driver's ride
C19_Witness ==
    /\ resp.op = "get_my_requests" /\ resp.code = 200
    /\ sessions[resp.client].user_role = "driver"
    /\ Len(requests) = 2 /\ Len(resp.body) = 1
    /\ rides[RideOf(1)].driver_id # rides[RideOf(2)].driver_id

\* term occurs in text as a run of consecutive characters, letter case
\* ignored
Contains(text, term) ==
    \E i \in 0..(Len(text) - Len(term)) :
        \A j \in 1..Len(term) : Lower(text[i + j]) = Lower(term[j])

\* C20: ride search is public and returns exactly the stored rides whose
\* status is 'active' and which match every filter supplied (origin and
\* destination as case-insensitive substrings, date exactly; a filter left
\* out or empty matches every ride), newest first, whether or not the
\* session is bound; a ride that is not 'active' is never returned, and the
\* search changes no stored user, ride or request.
C20_SearchReturnsMatches ==
    [][\A c \in Clients, origin \in SearchTerms, destination \in SearchTerms,
         date \in SearchDates :
          SearchRides(c, origin, destination, date) =>
             /\ resp'.code = 200
             /\ UNCHANGED <<users, rides, requests>>
             /\ Range(resp'.body) =
                   {r \in DOMAIN rides :
                      /\ rides[r].status = "active"
                      /\ origin = <<>> \/ Contains(rides[r].origin, origin)
                      /\ destination = <<>> \/ Contains(rides[r].destination, destination)
                      /\ date = "" \/ rides[r].date = date}
             /\ \A i, j \in DOMAIN resp'.body : i < j => resp'.body[i] > resp'.body[j]]_vars

\* the seats of the stored requests in ids, added up
RECURSIVE SeatsOf(_)
SeatsOf(ids) ==
    IF ids = {} THEN 0
    ELSE LET q == CHOOSE q \in ids : TRUE
         IN requests[q].seats + SeatsOf(ids \ {q})

\* C21: seat conservation: in every reachable state every ride's available
\* seats equals the seats it was created with (MaxSeats for the ride of
\* SeatInit, the only ride of SeatSpec) minus the seats of the stored
\* requests on that ride whose status is 'accepted'.
C21_SeatConservation ==
    \A r \in DOMAIN rides :
        rides[r].available_seats =
            MaxSeats - SeatsOf({q \in DOMAIN requests :
                                  /\ requests[q].ride_id = r
                                  /\ requests[q].status = "accepted"})

\* C22: whenever a session carries a user id, that id is the id of a stored
\* user and the role the session carries is that user's stored role, after
\* any sequence of register, login and logout calls on the session, a login
\* or register on a session bound to another user included.
C22_SessionUserStored ==
    \A c \in Clients :
        sessions[c].user_id # NoUser =>
            /\ sessions[c].user_id \in DOMAIN users
            /\ sessions[c].user_role = users[sessions[c].user_id].role
\* with two users of different roles stored, the second of them registered
\* on this session, a login has bound the session to the first
C22_Witness ==
    /\ resp.op = "login" /\ resp.code = 200
    /\ Len(users) = 2 /\ users[1].role # users[2].role
    /\ sessions[resp.client].user_id = 1

====
